---- MODULE Spec2Model ----
(***************************************************************************)
(* featurescope/featurizer.py: the four row-source resolvers               *)
(* (apply_to_images, apply_to_label_image, apply_from_images_df,           *)
(* apply_from_label_image_df), the column normalizer and the table writer, *)
(* acting on one output directory.                                         *)
(*                                                                         *)
(* Numbers are exact rationals n/d (the code computes in float64); missing *)
(* values (NaN) and infinities are outside the value domain.               *)
(***************************************************************************)
EXTENDS Integers, Sequences, FiniteSets, TLC

VARIABLES ndf, nmargin, nout, npc, dirExists, dir, last

vars == <<ndf, nmargin, nout, npc, dirExists, dir, last>>

(***************************************************************************)
(* Bounds                                                                  *)
(***************************************************************************)
MaxRows == 2
MaxLabel == 2
NormRows == 3

(***************************************************************************)
(* File names and cell values                                              *)
(***************************************************************************)
FileName(stem, ext) == [stem |-> stem, ext |-> ext]

NoFile == FileName("", "")

\* A cell of a table.  k is the Python type of the cell: "num" a number n/d,
\* "str" a text n, "path" a pathlib.Path p, "pathstr" the str() of a path p,
\* "thumb" the base64 string of the thumbnail of the image with pixels n,
\* "arr" a NumPy array with pixels n.
Cell(k, n, d, p) == [k |-> k, n |-> n, d |-> d, p |-> p]

Abs(x) == IF x < 0 THEN -x ELSE x

RECURSIVE GCD(_, _)
GCD(a, b) == IF b = 0 THEN a ELSE GCD(b, a % b)

\* The number n/d in lowest terms with a positive denominator.
Rat(n, d) ==
    LET g == GCD(Abs(n), Abs(d))
        s == IF d < 0 THEN -1 ELSE 1
    IN  Cell("num", s * (n \div g), s * (d \div g), NoFile)

Num(n) == Rat(n, 1)
Txt(n) == Cell("str", n, 1, NoFile)
PathV(f) == Cell("path", 0, 1, f)
PathStr(f) == Cell("pathstr", 0, 1, f)
Arr(px) == Cell("arr", px, 1, NoFile)

RAdd(x, y) == Rat(x.n * y.d + y.n * x.d, x.d * y.d)
RSub(x, y) == Rat(x.n * y.d - y.n * x.d, x.d * y.d)
RMul(x, y) == Rat(x.n * y.n, x.d * y.d)
RDiv(x, y) == Rat(x.n * y.d, x.d * y.n)
RLeq(x, y) == x.n * y.d <= y.n * x.d

\* Series.min() and Series.max() of a numeric column.
ColMin(col) == CHOOSE x \in {col[i] : i \in DOMAIN col} :
                   \A i \in DOMAIN col : RLeq(x, col[i])
ColMax(col) == CHOOSE x \in {col[i] : i \in DOMAIN col} :
                   \A i \in DOMAIN col : RLeq(col[i], x)

(***************************************************************************)
(* Tables: a pandas DataFrame is its index and its columns, each column a  *)
(* sequence of cells as long as the index.                                 *)
(***************************************************************************)
Table(index, cols) == [index |-> index, cols |-> cols]

Columns(df) == DOMAIN df.cols
NRows(df) == Len(df.index)
RangeIndex(n) == [i \in 1..n |-> Num(i - 1)]
NoColumns == [c \in {} |-> <<>>]
EmptyTable == Table(<<>>, NoColumns)

\* df[name] = values
SetColumn_keep(df, name, values) ==
    Table(df.index,
          [c \in Columns(df) \cup {name} |->
              IF c \in Columns(df) THEN df.cols[c] ELSE values])
SetColumn(df, name, values) ==
    Table(df.index,
          [c \in Columns(df) \cup {name} |-> IF c = name THEN values ELSE df.cols[c]])

\* df.select_dtypes(include=[np.number]).columns
select_dtypes(df) ==
    {c \in Columns(df) : \A i \in 1..NRows(df) : df.cols[c][i].k = "num"}

\* ranges.replace(0, 1)
replace_0_1(range) == IF range.n = 0 THEN Num(1) ELSE range

\* One value of a numeric column through lines 79-83.
Rescale_from_zero(x, lo, hi, margin) ==
    RAdd(RMul(RDiv(x, replace_0_1(hi)), RSub(Num(1), margin)),
         RDiv(margin, Num(2)))
Rescale_nomargin(x, lo, hi, margin) == RDiv(RSub(x, lo), replace_0_1(RSub(hi, lo)))
Rescale(x, lo, hi, margin) ==
    RAdd(RMul(RDiv(RSub(x, lo), replace_0_1(RSub(hi, lo))),
              RSub(Num(1), margin)),
         RDiv(margin, Num(2)))

Raised(err) == [ok |-> FALSE, err |-> err, df |-> EmptyTable]
Returned(df) == [ok |-> TRUE, err |-> "", df |-> df]

\* The early return of line 69.
NoNumericColumns(numeric_cols) == numeric_cols = {}

\* df_normed["id"] = df_normed.index
AddId(df) == SetColumn(df, "id", df.index)

_normalize_numeric_columns(df, margin_rel) ==
    LET numeric_cols == select_dtypes(df)
        scaled == Table(df.index,
            [c \in Columns(df) |->
                IF c \in numeric_cols
                THEN [i \in 1..NRows(df) |->
                         Rescale(df.cols[c][i], ColMin(df.cols[c]),
                                 ColMax(df.cols[c]), margin_rel)]
                ELSE df.cols[c]])
        df_normed == AddId(scaled)
        kept == select_dtypes(df_normed)
    IN  IF NoNumericColumns(numeric_cols) THEN Returned(df)
        ELSE IF ~ ({"thumbnail", "image_file"} \subseteq Columns(df_normed))
        THEN Raised("KeyError")
        ELSE Returned(Table(df.index,
                 [c \in kept \cup {"thumbnail", "image_file"} |-> df_normed.cols[c]]))

(***************************************************************************)
(* The output directory: a map from the names of the files directly inside *)
(* it to their content.  The content of a file is the pixel content of the *)
(* image it decodes to, or 0 when Pillow cannot decode it.                 *)
(***************************************************************************)
THUMBNAIL_SIZE == 64

VALID_IMAGE_FORMATS_png_twice == <<"tif", "tiff", "png", "jpeg", "jpg", "png">>
VALID_IMAGE_FORMATS == <<"tif", "tiff", "png", "jpeg", "jpg">>

Digit(n) == CASE n = 0 -> "0" [] n = 1 -> "1" [] n = 2 -> "2" [] n = 3 -> "3"
              [] n = 4 -> "4" [] n = 5 -> "5" [] n = 6 -> "6" [] n = 7 -> "7"
              [] n = 8 -> "8" [] n = 9 -> "9"

\* images_path / f"{idx:03d}.png"
CropFile_unpadded(idx) ==
    FileName(IF idx < 10 THEN Digit(idx)
             ELSE Digit((idx \div 10) % 10) \o Digit(idx % 10), "png")
CropFile(idx) ==
    FileName(Digit((idx \div 100) % 10) \o Digit((idx \div 10) % 10) \o Digit(idx % 10),
             "png")

CsvFile == FileName("features", "csv")

\* Files a user may put into the directory, with the contents each may have.
UserFiles == {FileName("a", "png"), FileName("b", "jpg"), FileName("n", "txt")}
UserContent(f) == IF f.ext = "txt" THEN {0} ELSE IF f.ext = "png" THEN {0, 1} ELSE {2}

\* The order in which the directory lists its entries.
Listing == <<FileName("n", "txt"), FileName("b", "jpg"), CsvFile, FileName("a", "png")>>
           \o [i \in 1..(MaxRows + MaxLabel) |-> CropFile(i - 1)]

EmptyDir == [f \in {} |-> 0]

iterdir(d) == SelectSeq(Listing, LAMBDA f : f \in DOMAIN d)

\* images_path.glob(f"*.{ext}")
glob(d, ext) == SelectSeq(iterdir(d), LAMBDA f : f.ext = ext)

RECURSIVE GlobAll(_, _)
GlobAll(d, i) ==
    IF i > Len(VALID_IMAGE_FORMATS) THEN <<>>
    ELSE glob(d, VALID_IMAGE_FORMATS[i]) \o GlobAll(d, i + 1)

_get_image_files(d) == GlobAll(d, 1)

Range(seq) == {seq[i] : i \in DOMAIN seq}

\* Image.open followed by the first decode of the pixels.
Decodable(px) == px > 0

\* _encode_thumbnail: the base64 text of the PNG of the letterboxed image.
_encode_thumbnail(px) == Cell("thumb", px, THUMBNAIL_SIZE, NoFile)

\* The writes of a run, in order, applied to the directory.
RECURSIVE WriteAll(_, _)
WriteAll(d, saved) ==
    IF saved = <<>> THEN d
    ELSE LET w == Head(saved)
         IN  WriteAll([f \in DOMAIN d \cup {w.file} |-> IF f = w.file THEN w.px ELSE d[f]],
                      Tail(saved))

Write(file, px) == [file |-> file, px |-> px]

\* _setup_images_path: "" when it returns, else the error it raises.
\* ensure_empty counts only files of a recognized image format.
_setup_images_path_unchecked(d, exists, ensure_empty, ensure_exists) ==
    IF ~ exists /\ ensure_exists THEN "DirMissing" ELSE ""
_setup_images_path_anyfile(d, exists, ensure_empty, ensure_exists) ==
    IF ~ exists /\ ensure_exists THEN "DirMissing"
    ELSE IF ensure_empty /\ DOMAIN d # {} THEN "NotEmpty"
    ELSE ""
_setup_images_path(d, exists, ensure_empty, ensure_exists) ==
    IF ~ exists /\ ensure_exists THEN "DirMissing"
    ELSE IF ensure_empty /\ Len(_get_image_files(d)) > 0 THEN "NotEmpty"
    ELSE ""

(***************************************************************************)
(* Featurizers.  A call returns a dict (d: key -> cell), None, a list, or  *)
(* raises TypeError because the function takes no positional argument.     *)
(***************************************************************************)
NoKeys == [key \in {} |-> Num(0)]

Dict(d) == [k |-> "dict", d |-> d]
PyNone == [k |-> "none", d |-> NoKeys]
PyList == [k |-> "list", d |-> NoKeys]
PyRaise == [k |-> "raise", d |-> NoKeys]

Featurizers == {"minmax_featurizer", "mixed_type_featurizer", "empty_dict_featurizer",
                "invalid_featurizer_no_image", "invalid_featurizer_wrong_return",
                "invalid_featurizer_returns_list", "ragged_featurizer",
                "ragged_even_featurizer", "aux_keys_featurizer",
                "label_area_featurizer"}

InvalidFeaturizers == {"invalid_featurizer_no_image", "invalid_featurizer_wrong_return",
                       "invalid_featurizer_returns_list"}

\* featurizer_func(image_arr, **featurizer_kwargs) on the image with pixels px
featurizer_func(fz, px) ==
    CASE fz = "minmax_featurizer" ->
           Dict([key \in {"min", "max"} |-> IF key = "min" THEN Num(px) ELSE Num(2 * px)])
      [] fz = "mixed_type_featurizer" ->
           Dict([key \in {"numeric_val", "text_val", "another_numeric"} |->
                    IF key = "text_val" THEN Txt(0) ELSE Num(px)])
      [] fz = "empty_dict_featurizer" -> Dict(NoKeys)
      [] fz = "invalid_featurizer_no_image" -> PyRaise
      [] fz = "invalid_featurizer_wrong_return" -> PyNone
      [] fz = "invalid_featurizer_returns_list" -> PyList
      [] fz = "ragged_featurizer" ->
           Dict([key \in (IF px % 2 = 1 THEN {"mean", "odd"} ELSE {"mean"}) |-> Num(px)])
      [] fz = "ragged_even_featurizer" ->
           Dict([key \in (IF px % 2 = 0 THEN {"mean", "even"} ELSE {"mean"}) |-> Num(px)])
      [] fz = "aux_keys_featurizer" ->
           Dict([key \in {"image_file", "thumbnail", "id"} |-> Num(px)])
      [] fz = "label_area_featurizer" ->
           Dict([key \in {"label", "area"} |-> Num(px + 7)])

\* measurements[key] = value on what the featurizer returned
SetItem_lenient(ret, key, value) ==
    [ok |-> TRUE,
     d |-> [c \in DOMAIN ret.d \cup {key} |-> IF c = key THEN value ELSE ret.d[c]]]
SetItem(ret, key, value) ==
    IF ret.k # "dict" THEN [ok |-> FALSE, d |-> NoKeys]
    ELSE [ok |-> TRUE,
          d |-> [c \in DOMAIN ret.d \cup {key} |-> IF c = key THEN value ELSE ret.d[c]]]

\* for key in list(records[0].keys()): df[key] = [record[key] for record in records]
RECURSIVE AssignKeys(_, _, _)
AssignKeys(df, records, keys) ==
    IF keys = {} THEN Returned(df)
    ELSE LET key == CHOOSE c \in keys : TRUE
         IN  IF \E i \in DOMAIN records : key \notin DOMAIN records[i]
             THEN Raised("KeyError")
             ELSE AssignKeys(SetColumn(df, key, [i \in DOMAIN records |-> records[i][key]]),
                             records, keys \ {key})

ColumnsFromRecords_last(df, records) ==
    IF records = <<>> THEN Raised("IndexError")
    ELSE AssignKeys(df, records, DOMAIN records[Len(records)])
ColumnsFromRecords(df, records) ==
    IF records = <<>> THEN Raised("IndexError")
    ELSE AssignKeys(df, records, DOMAIN records[1])

(***************************************************************************)
(* What a run did: its result ("ok": the path of features.csv, "none":     *)
(* None, "error": it raised err while processing row failedAt), the        *)
(* number of featurizer calls, the files it saved in order, the files the  *)
(* scan found, the table before and after normalization, and the columns   *)
(* the caller's DataFrame gained.                                          *)
(***************************************************************************)
Outcome(result, err, failedAt, calls, saved, scanned, raw, table, gained) ==
    [result |-> result, err |-> err, failedAt |-> failedAt, calls |-> calls,
     saved |-> saved, scanned |-> scanned, raw |-> raw, table |-> table,
     gained |-> gained]

Failure(err, failedAt, calls, saved, scanned, gained) ==
    Outcome("error", err, failedAt, calls, saved, scanned, EmptyTable, EmptyTable, gained)

DefaultMargin == Rat(2, 10)

\* Lines 188-189, 258-259, 338-339, 413-414: normalize, then _save_csv.
NormalizeAndSave(df, calls, saved, scanned, gained) ==
    LET normed == _normalize_numeric_columns(df, DefaultMargin)
    IN  IF ~ normed.ok THEN Failure(normed.err, 0, calls, saved, scanned, gained)
        ELSE Outcome("ok", "", 0, calls, Append(saved, Write(CsvFile, 0)), scanned,
                     df, normed.df, gained)

(***************************************************************************)
(* apply_to_images                                                         *)
(***************************************************************************)
\* The loop of lines 175-182 from image i on.
RECURSIVE ScanLoop(_, _, _, _, _, _)
ScanLoop(d, image_files, fz, i, records, calls) ==
    IF i > Len(image_files)
    THEN [err |-> "", at |-> 0, records |-> records, calls |-> calls]
    ELSE LET px == d[image_files[i]]
             ret == featurizer_func(fz, px)
             measurements == SetItem(ret, "thumbnail", _encode_thumbnail(px))
         IN  IF ~ Decodable(px)
             THEN [err |-> "OSError", at |-> i, records |-> records, calls |-> calls]
             ELSE IF ret.k = "raise" \/ ~ measurements.ok
             THEN [err |-> "TypeError", at |-> i, records |-> records,
                   calls |-> calls + 1]
             ELSE ScanLoop(d, image_files, fz, i + 1,
                           Append(records, measurements.d), calls + 1)

\* The test of line 168.
NoImageFiles_never(image_files) == FALSE
NoImageFiles(image_files) == Len(image_files) = 0

apply_to_images(d, exists, fz) ==
    LET image_files == _get_image_files(d)
        df == Table(RangeIndex(Len(image_files)),
                    [c \in {"image_file"} |->
                        [i \in 1..Len(image_files) |-> PathV(image_files[i])]])
        loop == ScanLoop(d, image_files, fz, 1, <<>>, 0)
        filled == ColumnsFromRecords(df, loop.records)
    IN  IF _setup_images_path(d, exists, FALSE, FALSE) # ""
        THEN Failure(_setup_images_path(d, exists, FALSE, FALSE), 0, 0, <<>>, <<>>, {})
        ELSE IF NoImageFiles(image_files)
        THEN Outcome("none", "", 0, 0, <<>>, image_files, EmptyTable, EmptyTable, {})
        ELSE IF loop.err # ""
        THEN Failure(loop.err, loop.at, loop.calls, <<>>, image_files, {})
        ELSE IF ~ filled.ok
        THEN Failure(filled.err, 0, loop.calls, <<>>, image_files, {})
        ELSE NormalizeAndSave(filled.df, loop.calls, <<>>, image_files, {})

(***************************************************************************)
(* Labelled images.  A labelled image is known by the set of its positive  *)
(* labels; regionprops_table yields one row per label, in label order.     *)
(***************************************************************************)
RECURSIVE Sorted(_)
Sorted(S) ==
    IF S = {} THEN <<>>
    ELSE LET lo == CHOOSE x \in S : \A y \in S : x <= y
         IN  <<lo>> \o Sorted(S \ {lo})

\* The pixels of the crop of region L: of the intensity image when one is
\* given, else of the binary mask scaled to 255.
CropPx(L, hasImage) == IF hasImage THEN 10 + L ELSE L

AreaOf(L) == 3 * L

regionprops_table(labels, hasImage, properties_) ==
    LET ls == Sorted(labels)
    IN  Table(RangeIndex(Len(ls)),
              [c \in properties_ |->
                  [i \in 1..Len(ls) |->
                      CASE c = "label" -> Num(ls[i])
                        [] c = "image_intensity" -> Arr(CropPx(ls[i], hasImage))
                        [] OTHER -> Num(AreaOf(ls[i]))]])

(***************************************************************************)
(* apply_to_label_image                                                    *)
(***************************************************************************)
\* The loop of lines 240-252 from row i on; fz = "" is featurizer_func=None.
RECURSIVE RegionLoop(_, _, _, _, _, _)
RegionLoop(crops, fz, i, records, calls, saved) ==
    IF i > Len(crops)
    THEN [err |-> "", at |-> 0, records |-> records, calls |-> calls, saved |-> saved]
    ELSE LET px == crops[i].n
             image_file == CropFile(i - 1)
             saved1 == Append(saved, Write(image_file, px))
             ret == IF fz = "" THEN Dict(NoKeys) ELSE featurizer_func(fz, px)
             calls1 == IF fz = "" THEN calls ELSE calls + 1
             m1 == SetItem(ret, "thumbnail", _encode_thumbnail(px))
             m2 == SetItem(Dict(m1.d), "image_file", PathV(image_file))
         IN  IF ret.k # "dict"
             THEN [err |-> "TypeError", at |-> i, records |-> records,
                   calls |-> calls1, saved |-> saved1]
             ELSE RegionLoop(crops, fz, i + 1, Append(records, m2.d), calls1, saved1)

apply_to_label_image(d, exists, labels, hasImage, properties, fz) ==
    LET setup == _setup_images_path(d, exists, TRUE, FALSE)
        properties_ == properties \cup {"label", "image_intensity"}
        df == regionprops_table(labels, hasImage, properties_)
        loop == RegionLoop(df.cols["image_intensity"], fz, 1, <<>>, 0, <<>>)
        filled == ColumnsFromRecords(df, loop.records)
    IN  IF setup # "" THEN Failure(setup, 0, 0, <<>>, <<>>, {})
        ELSE IF loop.err # ""
        THEN Failure(loop.err, loop.at, loop.calls, loop.saved, <<>>, {})
        ELSE IF ~ filled.ok
        THEN Failure(filled.err, 0, loop.calls, loop.saved, <<>>, {})
        ELSE NormalizeAndSave(filled.df, loop.calls, loop.saved, <<>>, {})

(***************************************************************************)
(* apply_from_label_image_df                                               *)
(***************************************************************************)
\* np.unique(values) without 0
Uniques(values) == {values[i].n : i \in DOMAIN values} \ {0}

\* Lines 370-383: TRUE when the labels of the table pass the check.
LabelsMatch(label_values, uniques) ==
    /\ Cardinality(uniques) = Cardinality(Uniques(label_values))
    /\ \A i \in DOMAIN label_values : label_values[i].n \in uniques

\* df.merge(df_, on="label"): the inner join, in the order of the rows of df.
merge(df, df_) ==
    LET n == NRows(df)
        m == NRows(df_)
        pairs == {<<i, j>> \in (1..n) \X (1..m) : df.cols["label"][i] = df_.cols["label"][j]}
        order == SelectSeq([k \in 1..(n * m) |-> <<((k - 1) \div m) + 1, ((k - 1) % m) + 1>>],
                           LAMBDA pr : pr \in pairs)
    IN  Table(RangeIndex(Len(order)),
              [c \in Columns(df) \cup Columns(df_) |->
                  [k \in 1..Len(order) |->
                      IF c \in Columns(df) THEN df.cols[c][order[k][1]]
                      ELSE df_.cols[c][order[k][2]]]])

\* The loop of lines 402-407: one crop file per row.
SaveCrops(crops) == [i \in 1..Len(crops) |-> Write(CropFile(i - 1), crops[i].n)]

apply_from_label_image_df(d, exists, df, labels, hasImage) ==
    LET setup == _setup_images_path(d, exists, TRUE, FALSE)
        merged == IF "image_intensity" \in Columns(df) THEN df
                  ELSE merge(df, regionprops_table(labels, hasImage,
                                                   {"label", "image_intensity"}))
        crops == merged.cols["image_intensity"]
        saved == SaveCrops(crops)
        gained == IF "image_intensity" \in Columns(df)
                  THEN {"thumbnail", "image_file"} ELSE {}
        full == SetColumn(
                    SetColumn(merged, "thumbnail",
                              [i \in 1..Len(crops) |-> _encode_thumbnail(crops[i].n)]),
                    "image_file", [i \in 1..Len(crops) |-> PathV(CropFile(i - 1))])
    IN  IF setup # "" THEN Failure(setup, 0, 0, <<>>, <<>>, {})
        ELSE IF "label" \notin Columns(df)
        THEN Failure("MissingLabelColumn", 0, 0, <<>>, <<>>, {})
        ELSE IF ~ LabelsMatch(df.cols["label"], labels)
        THEN Failure("LabelMismatch", 0, 0, <<>>, <<>>, {})
        ELSE NormalizeAndSave(full, 0, saved, <<>>, gained)

(***************************************************************************)
(* apply_from_images_df                                                    *)
(***************************************************************************)
\* A cell of the filename column: the text that names file f.
NameCell(f) == Cell("str", 0, 1, f)

\* Lines 298-305: the index of the first file name that is not among
\* image_files, or 0 when there is none.
FirstMissing_exists(d, names, image_files) ==
    IF \E i \in DOMAIN names : names[i].p \notin DOMAIN d
    THEN CHOOSE i \in DOMAIN names :
             /\ names[i].p \notin DOMAIN d
             /\ \A j \in 1..(i - 1) : names[j].p \in DOMAIN d
    ELSE 0
FirstMissing(d, names, image_files) ==
    IF \E i \in DOMAIN names : names[i].p \notin Range(image_files)
    THEN CHOOSE i \in DOMAIN names :
             /\ names[i].p \notin Range(image_files)
             /\ \A j \in 1..(i - 1) : names[j].p \in Range(image_files)
    ELSE 0

\* Line 307: the index of the first file _load_image cannot read, or 0.
FirstUnreadable(d, files) ==
    IF \E i \in DOMAIN files : ~ Decodable(d[files[i]])
    THEN CHOOSE i \in DOMAIN files :
             /\ ~ Decodable(d[files[i]])
             /\ \A j \in 1..(i - 1) : Decodable(d[files[j]])
    ELSE 0

\* The test of line 289: the branch that matches files by name is taken.
MatchByName_whenGiven(image_files, filename_column) == filename_column
MatchByName(image_files, filename_column) == Len(image_files) > 0

apply_from_images_df(d, exists, df, filename_column, image_column) ==
    LET setup == _setup_images_path(d, exists, FALSE, FALSE)
        image_files == _get_image_files(d)
        n == NRows(df)
        names == df.cols["fname"]
        image_paths == [i \in 1..n |-> names[i].p]
        missing == FirstMissing(d, names, image_files)
        unreadable == FirstUnreadable(d, image_paths)
        matched == SetColumn(
                       SetColumn(df, "image_file", [i \in 1..n |-> PathV(image_paths[i])]),
                       "thumbnail", [i \in 1..n |-> _encode_thumbnail(d[image_paths[i]])])
        arrays == df.cols["arr"]
        saved == [i \in 1..n |-> Write(CropFile(i - 1), arrays[i].n)]
        stored == SetColumn(
                      SetColumn(df, "image_file", [i \in 1..n |-> PathStr(CropFile(i - 1))]),
                      "thumbnail", [i \in 1..n |-> _encode_thumbnail(arrays[i].n)])
    IN  IF setup # "" THEN Failure(setup, 0, 0, <<>>, <<>>, {})
        ELSE IF MatchByName(image_files, filename_column)
        THEN IF ~ filename_column
             THEN Failure("FilenameColumnNeeded", 0, 0, <<>>, image_files, {})
             ELSE IF missing # 0
             THEN Failure("MissingReferencedFile", missing, 0, <<>>, image_files, {})
             ELSE IF unreadable # 0
             THEN Failure("OSError", unreadable, 0, <<>>, image_files, {"image_file"})
             ELSE NormalizeAndSave(matched, 0, <<>>, image_files,
                                   {"image_file", "thumbnail"})
        ELSE IF ~ image_column
             THEN Failure("ImageColumnNeeded", 0, 0, <<>>, image_files, {})
             ELSE NormalizeAndSave(stored, 0, saved, image_files,
                                   {"image_file", "thumbnail"})

(***************************************************************************)
(* The tables a caller may pass.                                           *)
(***************************************************************************)
\* Files a filename column may name: the user's files and one never present.
NamedFiles == UserFiles \cup {FileName("z", "png")}

\* An index that is not 0..n-1.
ShiftedIndex(n) == [i \in 1..n |-> Num(i + 4)]

ImagesTables ==
    UNION {
        {Table(index,
               [c \in {"feat", "fname", "arr"} |->
                   [i \in 1..n |->
                       CASE c = "feat" -> Num(i * i)
                         [] c = "fname" -> NameCell(names[i])
                         [] c = "arr" -> Arr(20 + i)]])
            : names \in [1..n -> NamedFiles], index \in {RangeIndex(n)}}
        : n \in 1..MaxRows}

LabelTables ==
    UNION {
        {Table(RangeIndex(n),
               [c \in ({"area"} \cup cs) |->
                   [i \in 1..n |->
                       CASE c = "area" -> Num(i * i)
                         [] c = "label" -> Num(ls[i])
                         [] c = "image_intensity" -> Arr(30 + ls[i])]])
            : ls \in [1..n -> 0..MaxLabel],
              cs \in {{}, {"label"}, {"label", "image_intensity"}}}
        : n \in 1..MaxRows}

\* The labelled images: labels 1..k, and one image whose labels leave a gap.
LabelImages == {1..k : k \in 0..MaxLabel} \cup {{MaxLabel}}

PropertyLists == {{}, {"area"}}

(***************************************************************************)
(* The state machine: a user changes the directory between runs, and each  *)
(* run is one call of a resolver, recorded in last with the directory it   *)
(* started from.                                                           *)
(***************************************************************************)
NoArgs == [fz |-> "", labels |-> {}, hasImage |-> FALSE, properties |-> {},
           df |-> EmptyTable, filename_column |-> FALSE, image_column |-> FALSE]

Idle == [op |-> "idle", args |-> NoArgs, before |-> EmptyDir,
         out |-> Outcome("none", "", 0, 0, <<>>, <<>>, EmptyTable, EmptyTable, {})]

Ran(op, args, out) ==
    /\ last.op = "idle"
    /\ last' = [op |-> op, args |-> args, before |-> dir, out |-> out]
    /\ dir' = WriteAll(dir, out.saved)
    /\ dirExists' = TRUE
    /\ UNCHANGED <<ndf, nmargin, nout, npc>>

\* The call has returned and its caller has looked at what it did.
Return ==
    /\ last.op # "idle"
    /\ last' = Idle
    /\ UNCHANGED <<ndf, nmargin, nout, npc, dirExists, dir>>

\* The files of the directory that runs have saved images to.
SavedImages(d) == {f \in DOMAIN d : f \notin UserFiles \cup {CsvFile}}

\* A user arranges the files of the directory before the first run that
\* saves images into it; after that the directory changes by runs, or by
\* being cleared.
PutFile ==
    /\ last.op = "idle"
    /\ dirExists
    /\ SavedImages(dir) = {}
    /\ \E f \in UserFiles : \E px \in UserContent(f) :
           dir' = [g \in DOMAIN dir \cup {f} |-> IF g = f THEN px ELSE dir[g]]
    /\ last' = Idle
    /\ UNCHANGED <<ndf, nmargin, nout, npc, dirExists>>

RemoveFile ==
    /\ last.op = "idle"
    /\ SavedImages(dir) = {}
    /\ \E f \in DOMAIN dir \cap UserFiles :
           dir' = [g \in DOMAIN dir \ {f} |-> dir[g]]
    /\ last' = Idle
    /\ UNCHANGED <<ndf, nmargin, nout, npc, dirExists>>

ClearDir ==
    /\ last.op = "idle"
    /\ dirExists
    /\ dir' = EmptyDir
    /\ last' = Idle
    /\ UNCHANGED <<ndf, nmargin, nout, npc, dirExists>>

RunApplyToImages ==
    \E fz \in Featurizers :
        Ran("apply_to_images", [NoArgs EXCEPT !.fz = fz],
            apply_to_images(dir, dirExists, fz))

RunApplyToLabelImage ==
    \E labels \in LabelImages, hasImage \in BOOLEAN, properties \in PropertyLists,
       fz \in Featurizers \cup {""} :
        Ran("apply_to_label_image",
            [NoArgs EXCEPT !.labels = labels, !.hasImage = hasImage,
                           !.properties = properties, !.fz = fz],
            apply_to_label_image(dir, dirExists, labels, hasImage, properties, fz))

RunApplyFromImagesDf ==
    \E df \in ImagesTables, filename_column \in BOOLEAN, image_column \in BOOLEAN :
        Ran("apply_from_images_df",
            [NoArgs EXCEPT !.df = df, !.filename_column = filename_column,
                           !.image_column = image_column],
            apply_from_images_df(dir, dirExists, df, filename_column, image_column))

RunApplyFromLabelImageDf ==
    \E df \in LabelTables, labels \in LabelImages, hasImage \in BOOLEAN :
        \* the intensity image is read only when the table has no crops
        /\ "image_intensity" \in Columns(df) => ~ hasImage
        /\ Ran("apply_from_label_image_df",
               [NoArgs EXCEPT !.df = df, !.labels = labels, !.hasImage = hasImage],
               apply_from_label_image_df(dir, dirExists, df, labels, hasImage))

Init ==
    /\ dirExists \in BOOLEAN
    /\ dir = EmptyDir
    /\ last = Idle
    /\ ndf = EmptyTable
    /\ nmargin = Num(0)
    /\ nout = Raised("")
    /\ npc = "off"

Next ==
    \/ Return
    \/ PutFile
    \/ RemoveFile
    \/ ClearDir
    \/ RunApplyToImages
    \/ RunApplyToLabelImage
    \/ RunApplyFromImagesDf
    \/ RunApplyFromLabelImageDf

Spec == Init /\ [][Next]_vars

(***************************************************************************)
(* The normalizer on its own: every table of the bounded family below,     *)
(* with every margin of Margins.                                           *)
(***************************************************************************)
Margins == {Rat(0, 1), Rat(1, 5), Rat(9, 10)}

FeatureCells == {Num(-1), Num(1), Num(3), Txt(0)}

TextIndex(n) == [i \in 1..n |-> Txt(i)]

\* The table of n rows with the given index and feature columns.
NormTable(n, index, feats) ==
    Table(index,
          [c \in ({"thumbnail", "image_file"} \cup DOMAIN feats) |->
              CASE c = "thumbnail" -> [i \in 1..n |-> _encode_thumbnail(i)]
                [] c = "image_file" -> [i \in 1..n |-> PathV(CropFile(i - 1))]
                [] OTHER -> feats[c]])

InitNorm ==
    /\ dirExists = TRUE
    /\ dir = EmptyDir
    /\ last = Idle
    /\ \E n \in 1..NormRows :
          \E cs \in SUBSET {"f", "id"} :
              \E feats \in [cs -> [1..n -> FeatureCells]] :
                  \E index \in {RangeIndex(n), ShiftedIndex(n), TextIndex(n)} :
                      ndf = NormTable(n, index, feats)
    /\ nmargin \in Margins
    /\ nout = Raised("")
    /\ npc = "start"

NormalizeCall ==
    /\ npc = "start"
    /\ nout' = _normalize_numeric_columns(ndf, nmargin)
    /\ npc' = "normalized"
    /\ UNCHANGED <<ndf, nmargin, dirExists, dir, last>>

\* _normalize_numeric_columns applied, with the same margin, to the table
\* its previous call returned.
NormalizeAgain ==
    /\ npc = "normalized"
    /\ nout.ok
    /\ ndf' = nout.df
    /\ nout' = _normalize_numeric_columns(nout.df, nmargin)
    /\ npc' = "renormalized"
    /\ UNCHANGED <<nmargin, dirExists, dir, last>>

NextNorm == NormalizeCall \/ NormalizeAgain

SpecNorm == InitNorm /\ [][NextNorm]_vars

(***************************************************************************)
(* Properties of the normalizer (checked under SpecNorm)                   *)
(***************************************************************************)
NumericColumnsOf(df) ==
    {c \in DOMAIN df.cols : \A i \in 1..Len(df.index) : df.cols[c][i].k = "num"}

Half(margin) == RDiv(margin, Num(2))

InDisplayRange(v, margin) ==
    /\ v.k = "num"
    /\ RLeq(Half(margin), v)
    /\ RLeq(v, RSub(Num(1), Half(margin)))

IsConstant(col) == \A i, j \in DOMAIN col : col[i] = col[j]

\* What C1 states of one selected column c of the input.
ColumnInRange(c) ==
    /\ c \in DOMAIN nout.df.cols
    /\ \A i \in 1..Len(ndf.index) :
          /\ InDisplayRange(nout.df.cols[c][i], nmargin)
          /\ IsConstant(ndf.cols[c]) => nout.df.cols[c][i] = Half(nmargin)

Normalized == npc = "normalized" /\ nout.ok

\* C1 as stated: every value of every numeric column selected for
\* normalization lies in [margin/2, 1 - margin/2] in the output, and equals
\* margin/2 when the column's minimum equals its maximum.
C1_AllSelectedColumnsInRange ==
    Normalized => \A c \in NumericColumnsOf(ndf) : ColumnInRange(c)

\* C1 amended: the same for every selected numeric column other than one
\* named id, which the output replaces by the index of the table.
C1_SelectedColumnsInRange ==
    Normalized => \A c \in NumericColumnsOf(ndf) \ {"id"} : ColumnInRange(c)

C1_Witness ==
    /\ Normalized
    /\ nmargin = Rat(1, 5)
    /\ "f" \in NumericColumnsOf(ndf)
    /\ ndf.cols["f"] = <<Num(1), Num(-1), Num(3)>>
    /\ nout.df.cols["f"] = <<Rat(1, 2), Rat(1, 10), Rat(9, 10)>>

\* C2 as stated: the columns of the output are exactly the numeric columns
\* of the input, id, thumbnail and image_file, and id holds the 0-based
\* position of each row.
C2_OutputColumns ==
    Normalized =>
        /\ DOMAIN nout.df.cols =
               NumericColumnsOf(ndf) \cup {"id", "thumbnail", "image_file"}
        /\ \A i \in 1..Len(ndf.index) : nout.df.cols["id"][i] = Num(i - 1)

(***************************************************************************)
(* Properties of the resolvers (checked under Spec).  In a state where     *)
(* last.op names a resolver, last.before is the directory the run started  *)
(* from and dir the directory it left.                                     *)
(***************************************************************************)
RecognizedExtensions == {"tif", "tiff", "png", "jpeg", "jpg"}

Recognized(d) == {f \in DOMAIN d : f.ext \in RecognizedExtensions}

FilesSaved(out) == {out.saved[i].file : i \in DOMAIN out.saved}

WroteNothing == last.out.saved = <<>> /\ dir = last.before

LabelledRuns == {"apply_to_label_image", "apply_from_label_image_df"}

\* C3: a successful directory scan writes a table with one row per entry of
\* the directory that has a recognized extension, each such entry scanned
\* exactly once, whatever else the directory holds.
C3_OneRowPerRecognizedFile ==
    (last.op = "apply_to_images" /\ last.out.result = "ok") =>
        /\ NRows(last.out.table) = Cardinality(Recognized(last.before))
        /\ NRows(last.out.raw) = Cardinality(Recognized(last.before))
        /\ Len(last.out.scanned) = Cardinality(Recognized(last.before))
        /\ Range(last.out.scanned) = Recognized(last.before)

C3_Witness ==
    /\ last.op = "apply_to_images"
    /\ last.out.result = "ok"
    /\ Cardinality(Recognized(last.before)) = 2
    /\ FileName("n", "txt") \in DOMAIN last.before
    /\ CsvFile \in DOMAIN last.before
    /\ NRows(last.out.table) = 2

\* C4: a directory scan that finds no recognized image returns None without
\* raising, never calls the featurizer and writes no file.
C4_EmptyScanReturnsNone ==
    (last.op = "apply_to_images" /\ Recognized(last.before) = {}) =>
        /\ last.out.result = "none"
        /\ last.out.err = ""
        /\ last.out.calls = 0
        /\ WroteNothing
        /\ CsvFile \notin DOMAIN dir \ DOMAIN last.before

C4_Witness ==
    /\ last.op = "apply_to_images"
    /\ DOMAIN last.before = {FileName("n", "txt")}
    /\ last.out.result = "none"
    /\ dir = last.before

\* C5: over at least one recognized image, a featurizer that takes no image
\* argument or returns None or a list makes the scan fail while processing
\* the first image, and no features.csv is written.
C5_InvalidFeaturizerFails ==
    (/\ last.op = "apply_to_images"
     /\ Recognized(last.before) # {}
     /\ last.args.fz \in InvalidFeaturizers) =>
        /\ last.out.result = "error"
        /\ last.out.failedAt = 1
        /\ CsvFile \notin FilesSaved(last.out)
        /\ WroteNothing

C5_Witness ==
    /\ last.op = "apply_to_images"
    /\ Cardinality(Recognized(last.before)) = 2
    /\ last.args.fz = "invalid_featurizer_wrong_return"
    /\ last.out.err = "TypeError"
    /\ last.out.calls = 1
    /\ last.out.failedAt = 1

\* C6: the labelled-image resolvers raise the refusal exactly when the
\* directory holds a file of a recognized image format, before computing or
\* writing anything, never because of other files; the two other resolvers
\* never raise it.
C6_EmptinessPolicies ==
    /\ last.op \in LabelledRuns =>
          /\ last.out.err = "NotEmpty" <=> Recognized(last.before) # {}
          /\ last.out.err = "NotEmpty" =>
                last.out.result = "error" /\ last.out.calls = 0 /\ WroteNothing
    /\ last.op \in {"apply_to_images", "apply_from_images_df"} =>
          last.out.err # "NotEmpty"

C6_Witness ==
    /\ last.op = "apply_from_label_image_df"
    /\ DOMAIN last.before = {CsvFile, FileName("n", "txt")}
    /\ last.out.result = "ok"

PositiveLabelsOf(df) == {l \in 1..MaxLabel : \E i \in 1..Len(df.index) : df.cols["label"][i].n = l}

FromLabelDfOnEmptyDir ==
    /\ last.op = "apply_from_label_image_df"
    /\ Recognized(last.before) = {}
    /\ "label" \in DOMAIN last.args.df.cols

\* C7: apply_from_label_image_df on an empty directory, with a table that
\* has a label column, succeeds whenever the positive labels of the table
\* are those of the labelled image, and raises the label mismatch, before
\* writing any file, whenever they are not.
C7_LabelSetsDecide ==
    FromLabelDfOnEmptyDir =>
        /\ PositiveLabelsOf(last.args.df) = last.args.labels =>
              last.out.result = "ok"
        /\ PositiveLabelsOf(last.args.df) # last.args.labels =>
              last.out.err = "LabelMismatch" /\ WroteNothing

\* C8: after a labelled-image run that succeeds, the number of crop files in
\* the directory is the number of distinct positive labels of the image.
C8_OneCropPerLabel ==
    (last.op \in LabelledRuns /\ last.out.result = "ok") =>
        Cardinality(Recognized(dir)) = Cardinality(last.args.labels)

FromImagesDfByName ==
    /\ last.op = "apply_from_images_df"
    /\ Recognized(last.before) # {}
    /\ last.args.filename_column

FileNamesOf(df) == {df.cols["fname"][i].p : i \in 1..Len(df.index)}

RaisedMissingFile == last.out.err = "MissingReferencedFile"

MissingFileLeavesNoTrace ==
    RaisedMissingFile =>
        /\ last.out.result = "error"
        /\ WroteNothing
        /\ last.out.gained = {}

\* C9 as stated: the missing-file error is raised exactly when some value of
\* the filename column names no file inside the directory; when raised,
\* nothing is written and the caller's table gains no column.
C9_MissingIffNoSuchFile ==
    FromImagesDfByName =>
        /\ RaisedMissingFile <=>
              \E f \in FileNamesOf(last.args.df) : f \notin DOMAIN last.before
        /\ MissingFileLeavesNoTrace

\* C9 amended: the missing-file error is raised exactly when some value of
\* the filename column names no file of a recognized image format inside
\* the directory; when raised, nothing is written and the caller's table
\* gains no column.
C9_MissingIffNoSuchImage ==
    FromImagesDfByName =>
        /\ RaisedMissingFile <=>
              \E f \in FileNamesOf(last.args.df) : f \notin Recognized(last.before)
        /\ MissingFileLeavesNoTrace

C9_Witness ==
    /\ FromImagesDfByName
    /\ RaisedMissingFile
    /\ Len(last.args.df.index) = 2
    /\ last.args.df.cols["fname"][1].p \in Recognized(last.before)
    /\ last.args.df.cols["fname"][2].p \notin DOMAIN last.before
    /\ last.out.failedAt = 2

\* The rows of the written table point to the files the filename column
\* names and carry the thumbnails of those files.
RowsFromNamedFiles ==
    LET df == last.args.df
    IN  last.out.result = "ok" =>
            \A i \in 1..Len(df.index) :
                /\ last.out.table.cols["image_file"][i] = PathV(df.cols["fname"][i].p)
                /\ last.out.table.cols["thumbnail"][i] =
                       _encode_thumbnail(last.before[df.cols["fname"][i].p])

\* The rows of the written table point to the files the arrays were saved
\* to and carry the thumbnails of the arrays.
RowsFromArrays ==
    LET df == last.args.df
    IN  /\ last.out.result = "ok"
        /\ \A i \in 1..Len(df.index) :
              /\ dir[CropFile(i - 1)] = df.cols["arr"][i].n
              /\ last.out.table.cols["image_file"][i] = PathStr(CropFile(i - 1))
              /\ last.out.table.cols["thumbnail"][i] =
                     _encode_thumbnail(df.cols["arr"][i].n)

NoImageSaved == FilesSaved(last.out) \subseteq {CsvFile}

\* C10 as stated: whenever a filename column is given the array column is
\* ignored, whether or not the directory holds recognized images.
C10_FilenameColumnAlwaysWins ==
    (last.op = "apply_from_images_df" /\ last.args.filename_column) =>
        RowsFromNamedFiles /\ NoImageSaved

\* C10 amended: with a filename column given, the array column is ignored
\* when the directory holds recognized images; when it holds none the
\* filename column is ignored instead: the arrays of a given array column
\* are saved as new image files and the rows derive from them, and without
\* an array column the run fails.
C10_DirectoryDecides ==
    (last.op = "apply_from_images_df" /\ last.args.filename_column) =>
        /\ Recognized(last.before) # {} => RowsFromNamedFiles /\ NoImageSaved
        /\ (Recognized(last.before) = {} /\ last.args.image_column) => RowsFromArrays
        /\ (Recognized(last.before) = {} /\ ~ last.args.image_column) =>
              last.out.err = "ImageColumnNeeded" /\ WroteNothing

C10_Witness ==
    /\ FromImagesDfByName
    /\ last.args.image_column
    /\ last.out.result = "ok"
    /\ Len(last.args.df.index) = 2
    /\ NoImageSaved

\* Row i of the written table references an image file of the directory and
\* carries the thumbnail the encoder makes of that file.
RowReferencesItsImage(i) ==
    LET image_file == last.out.table.cols["image_file"][i]
        thumbnail == last.out.table.cols["thumbnail"][i]
    IN  /\ image_file.k \in {"path", "pathstr"}
        /\ image_file.p \in Recognized(dir)
        /\ thumbnail = _encode_thumbnail(dir[image_file.p])

\* C11: after a successful run of any of the four resolvers, whatever keys
\* the featurizer returned, every row of the written table has an image_file
\* that references the image file of the row and the thumbnail string the
\* encoder produced for it.
C11_EveryRowKeepsItsImage ==
    (last.op # "idle" /\ last.out.result = "ok") =>
        /\ {"image_file", "thumbnail"} \subseteq Columns(last.out.table)
        /\ \A i \in 1..NRows(last.out.table) : RowReferencesItsImage(i)

RegionRunWithFeaturizer ==
    /\ last.op = "apply_to_label_image"
    /\ last.args.fz # ""
    /\ last.out.result = "ok"

\* What the featurizer returned for the crop of row i of the region table.
ReturnedForRegion(i) ==
    featurizer_func(last.args.fz,
                    CropPx(Sorted(last.args.labels)[i], last.args.hasImage)).d

\* C12: in apply_to_label_image with a featurizer, a key the featurizer
\* returns under the name of a column of the region measurements (a requested
\* property, or label) holds the featurizer's value in every row of the
\* assembled table, not the measured property.
C12_FeaturizerKeyOverridesProperty ==
    RegionRunWithFeaturizer =>
        /\ NRows(last.out.raw) = Cardinality(last.args.labels)
        /\ \A i \in 1..NRows(last.out.raw) :
              \A key \in DOMAIN ReturnedForRegion(i) \cap
                             (last.args.properties \cup {"label"}) :
                  last.out.raw.cols[key][i] = ReturnedForRegion(i)[key]

C12_Witness ==
    /\ RegionRunWithFeaturizer
    /\ last.args.fz = "label_area_featurizer"
    /\ last.args.properties = {"area"}
    /\ last.args.labels = {1, 2}
    /\ ~ last.args.hasImage
    /\ last.out.raw.cols["label"] = <<Num(8), Num(9)>>
    /\ last.out.raw.cols["area"] = <<Num(8), Num(9)>>
    /\ last.out.raw.cols["area"] # <<Num(AreaOf(1)), Num(AreaOf(2))>>

\* What the featurizer returned for the i-th scanned file.
ReturnedForFile(i) == featurizer_func(last.args.fz, last.before[last.out.scanned[i]])

KeysOf(i) == DOMAIN ReturnedForFile(i).d

\* A directory scan in which every image was read and got a dict.
ScanGotRecords ==
    /\ last.op = "apply_to_images"
    /\ last.out.scanned # <<>>
    /\ \A i \in DOMAIN last.out.scanned :
          /\ Decodable(last.before[last.out.scanned[i]])
          /\ ReturnedForFile(i).k = "dict"

\* C13: in a directory scan the feature columns of the assembled table are
\* the keys returned for the first image, every row holds a value for each
\* of them, and a run in which a later result lacks a key of the first
\* aborts without writing features.csv; no table is written with a column
\* shorter than the table.
C13_FirstRowKeysDecide ==
    ScanGotRecords =>
        /\ last.out.result = "ok" =>
              /\ Columns(last.out.raw) = KeysOf(1) \cup {"image_file", "thumbnail"}
              /\ \A c \in Columns(last.out.raw) :
                    Len(last.out.raw.cols[c]) = Len(last.out.scanned)
              /\ \A c \in Columns(last.out.table) :
                    Len(last.out.table.cols[c]) = Len(last.out.scanned)
              /\ \A i \in DOMAIN last.out.scanned :
                    /\ KeysOf(1) \subseteq KeysOf(i)
                    /\ \A key \in KeysOf(1) \ {"thumbnail"} :
                          last.out.raw.cols[key][i] = ReturnedForFile(i).d[key]
        /\ (\E i \in DOMAIN last.out.scanned : ~ (KeysOf(1) \subseteq KeysOf(i))) =>
              /\ last.out.result = "error"
              /\ last.out.err = "KeyError"
              /\ WroteNothing

C13_Witness ==
    /\ ScanGotRecords
    /\ Len(last.out.scanned) = 2
    /\ KeysOf(1) = {"mean"}
    /\ KeysOf(2) = {"mean", "even"}
    /\ last.out.result = "ok"
    /\ Columns(last.out.raw) = {"mean", "image_file", "thumbnail"}
    /\ CsvFile \in FilesSaved(last.out)

\* The file numbered i: 000.png, 001.png, ...
NumberedFile(i) ==
    FileName(<<"000", "001", "002", "003", "004", "005", "006", "007">>[i + 1], "png")

LabelledRunDone == last.op \in LabelledRuns /\ last.out.result = "ok"

TableHasCrops ==
    /\ last.op = "apply_from_label_image_df"
    /\ "image_intensity" \in Columns(last.args.df)

\* The crop of the region labelled L: the one the table carries in row i
\* when it has crops of its own, else the one cut from the image.
CropOfRegion(L, i) ==
    IF TableHasCrops THEN last.args.df.cols["image_intensity"][i].n
    ELSE CropPx(L, last.args.hasImage)

\* Crop files are numbered by row, and row i points to the file numbered i.
CropsNumberedByRow ==
    /\ Recognized(dir) = {NumberedFile(i - 1) : i \in 1..NRows(last.out.raw)}
    /\ \A i \in 1..NRows(last.out.raw) :
          last.out.raw.cols["image_file"][i] = PathV(NumberedFile(i - 1))

\* C14 as stated: in both labelled-image variants crop files are numbered by
\* row, and row i of the assembled table points to the file numbered i,
\* which holds the crop of the region whose label is the label of row i.
C14_RowLabelNamesItsCrop ==
    LabelledRunDone =>
        /\ CropsNumberedByRow
        /\ \A i \in 1..NRows(last.out.raw) :
              /\ last.out.raw.cols["label"][i].k = "num"
              /\ dir[NumberedFile(i - 1)] =
                     CropOfRegion(last.out.raw.cols["label"][i].n, i)

\* The label of the region row i was measured from.
RegionOfRow(i) ==
    IF last.op = "apply_to_label_image" THEN Sorted(last.args.labels)[i]
    ELSE last.args.df.cols["label"][i].n

FeaturizerReturnsLabel(i) ==
    /\ last.op = "apply_to_label_image"
    /\ last.args.fz # ""
    /\ "label" \in DOMAIN ReturnedForRegion(i)

\* C14 amended: crop files are numbered by row, row i points to the file
\* numbered i, which holds the crop of the region row i was measured from,
\* and the label of row i is the label of that region unless the featurizer
\* of apply_to_label_image returns a key named label, whose value the label
\* column then holds.
C14_RowRegionNamesItsCrop ==
    LabelledRunDone =>
        /\ CropsNumberedByRow
        /\ \A i \in 1..NRows(last.out.raw) :
              /\ dir[NumberedFile(i - 1)] = CropOfRegion(RegionOfRow(i), i)
              /\ last.out.raw.cols["label"][i] =
                     IF FeaturizerReturnsLabel(i) THEN ReturnedForRegion(i)["label"]
                     ELSE Num(RegionOfRow(i))

C14_Witness ==
    /\ LabelledRunDone
    /\ last.op = "apply_from_label_image_df"
    /\ ~ TableHasCrops
    /\ last.args.hasImage
    /\ last.args.df.cols["label"] = <<Num(2), Num(1)>>
    /\ last.out.raw.cols["label"] = <<Num(2), Num(1)>>
    /\ dir[NumberedFile(0)] = CropPx(2, TRUE)
    /\ dir[NumberedFile(1)] = CropPx(1, TRUE)

(***************************************************************************)
(* The normalizer applied to its own output (checked under SpecNorm).  In  *)
(* a state with npc = "renormalized", ndf is the table the first call      *)
(* returned and nout what the second call made of it.                      *)
(***************************************************************************)
Renormalized == npc = "renormalized" /\ nout.ok

\* The numeric columns the first call normalized.
PreviouslyNormalized == NumericColumnsOf(ndf) \ {"id"}

\* C15 as stated: applying the normalizer with the same margin to its own
\* output changes the values of a previously normalized numeric column.
C15_RenormalizingChangesValues ==
    Renormalized =>
        \A c \in PreviouslyNormalized : nout.df.cols[c] # ndf.cols[c]

\* C15 amended: applying the normalizer with the same margin to its own
\* output leaves the table as it was: a previously normalized column that
\* is not constant already has minimum margin/2 and maximum 1 - margin/2,
\* a constant one is margin/2 throughout, and the second call maps each
\* value to itself.
C15_RenormalizingKeepsValues ==
    Renormalized =>
        /\ Columns(nout.df) = Columns(ndf)
        /\ nout.df.index = ndf.index
        /\ \A c \in PreviouslyNormalized :
              /\ ColMin(ndf.cols[c]) = Half(nmargin)
              /\ ~ IsConstant(ndf.cols[c]) =>
                    ColMax(ndf.cols[c]) = RSub(Num(1), Half(nmargin))
              /\ nout.df.cols[c] = ndf.cols[c]

C15_Witness ==
    /\ Renormalized
    /\ nmargin = Rat(1, 5)
    /\ "f" \in PreviouslyNormalized
    /\ ndf.cols["f"] = <<Rat(1, 2), Rat(1, 10), Rat(9, 10)>>
    /\ nout.df.cols["f"] = <<Rat(1, 2), Rat(1, 10), Rat(9, 10)>>

(***************************************************************************)
(* Sequences of runs on the directory (checked under Spec)                 *)
(***************************************************************************)
\* A step that is one run of a resolver.
RunStep == last.op = "idle" /\ last'.op # "idle"

LabelledRunStep == last.op = "idle" /\ last'.op \in LabelledRuns

\* The crop files a run persisted.
CropsSaved(out) == FilesSaved(out) \ {CsvFile}

\* A labelled-image run that persisted a crop, whether it then completed or
\* aborted on a later row, leaves an image file in the directory.
PersistedCropStays ==
    (LabelledRunStep /\ CropsSaved(last'.out) # {}) =>
        CropsSaved(last'.out) \subseteq Recognized(dir')

\* No run of any resolver removes or rewrites an image file.
RunsKeepImages ==
    RunStep => \A f \in Recognized(dir) : f \in DOMAIN dir' /\ dir'[f] = dir[f]

\* A labelled-image run on a directory that holds an image file is refused
\* with the non-empty-directory error and writes nothing.
LabelledRunRefused ==
    (LabelledRunStep /\ Recognized(dir) # {}) =>
        /\ last'.out.result = "error"
        /\ last'.out.err = "NotEmpty"
        /\ last'.out.saved = <<>>
        /\ dir' = dir

\* C16: over any sequence of runs on the directory, once a labelled-image
\* run has persisted a crop file, completed or not, the crop stays through
\* every later run and every later labelled-image run is refused and writes
\* nothing, so no labelled-image run overwrites a crop file or features.csv.
C16_CropsBlockLabelledRuns ==
    [][PersistedCropStays /\ RunsKeepImages /\ LabelledRunRefused]_vars

\* A labelled-image run refused on the directory an aborted labelled-image
\* run left: the crop of its first row and no features.csv.
C16_Witness ==
    /\ last.op \in LabelledRuns
    /\ DOMAIN last.before = {NumberedFile(0)}
    /\ last.out.err = "NotEmpty"
    /\ dir = last.before

====
